---------------------------- MODULE Spec2Model ----------------------------
(***************************************************************************)
(* Model of the speech translation pipeline of seis-to-seven:             *)
(*   apps/gemini_api/translator.py      language normalisation, the       *)
(*                                      Translator, the voice cache and   *)
(*                                      translate_text                    *)
(*   apps/api/.../routing/processing.py clone_and_speak                    *)
(*   apps/api/.../ASR/audio_processor.py receive_data                      *)
(*   apps/api/.../apps/main.py          processAudio and the entry point   *)
(*                                                                         *)
(* Python strings are sequences of one-character strings; the value None  *)
(* is the one-element sequence <<"None">>, which no string equals.        *)
(***************************************************************************)
EXTENDS Integers, Sequences, FiniteSets, TLC

None == <<"None">>

EmptyStr == <<>>

\* Python truthiness of an Optional[str]: None and "" are falsy.
Truthy(s) == s # None /\ s # EmptyStr

\* Python's `a or b` on Optional[str] values.
Or(a, b) == IF Truthy(a) THEN a ELSE b

(***************************************************************************)
(* str.lower() and str.strip()                                             *)
(***************************************************************************)
UpperAlpha ==
    <<"A","B","C","D","E","F","G","H","I","J","K","L","M",
      "N","O","P","Q","R","S","T","U","V","W","X","Y","Z">>

LowerAlpha ==
    <<"a","b","c","d","e","f","g","h","i","j","k","l","m",
      "n","o","p","q","r","s","t","u","v","w","x","y","z">>

LowerChar(c) ==
    IF \E i \in DOMAIN UpperAlpha : UpperAlpha[i] = c
    THEN LowerAlpha[CHOOSE i \in DOMAIN UpperAlpha : UpperAlpha[i] = c]
    ELSE c

Lower(s) == [i \in DOMAIN s |-> LowerChar(s[i])]

Whitespace == {" ", "\t", "\n", "\r"}

RECURSIVE LStrip(_)
LStrip(s) ==
    IF s # <<>> /\ Head(s) \in Whitespace THEN LStrip(Tail(s)) ELSE s

RECURSIVE RStrip(_)
RStrip(s) ==
    IF s # <<>> /\ s[Len(s)] \in Whitespace
    THEN RStrip(SubSeq(s, 1, Len(s) - 1))
    ELSE s

Strip(s) == RStrip(LStrip(s))

(***************************************************************************)
(* translator.py: LANG_MAP and _normalize_lang                             *)
(***************************************************************************)
LANG_CODES ==
    << <<"e","n">>, <<"e","s">>, <<"h","i">>, <<"z","h">>, <<"f","r">>,
       <<"d","e">>, <<"p","t">>, <<"j","a">>, <<"k","o">> >>

LANG_NAMES ==
    << <<"E","n","g","l","i","s","h">>,
       <<"S","p","a","n","i","s","h">>,
       <<"H","i","n","d","i">>,
       <<"C","h","i","n","e","s","e">>,
       <<"F","r","e","n","c","h">>,
       <<"G","e","r","m","a","n">>,
       <<"P","o","r","t","u","g","u","e","s","e">>,
       <<"J","a","p","a","n","e","s","e">>,
       <<"K","o","r","e","a","n">> >>

\* Index of the first LANG_MAP entry satisfying a test, 0 when there is none
\* (dict iteration follows insertion order).
FirstCode(l) ==
    IF \E i \in DOMAIN LANG_CODES : LANG_CODES[i] = l
    THEN CHOOSE i \in DOMAIN LANG_CODES : LANG_CODES[i] = l
    ELSE 0

FirstName(l) ==
    IF \E i \in DOMAIN LANG_NAMES : Lower(LANG_NAMES[i]) = l
    THEN CHOOSE i \in DOMAIN LANG_NAMES :
            /\ Lower(LANG_NAMES[i]) = l
            /\ \A j \in DOMAIN LANG_NAMES : Lower(LANG_NAMES[j]) = l => i <= j
    ELSE 0

\* A normalisation that lower-cases the token without trimming it.
NormalizeUntrimmed(lang) ==
    IF ~Truthy(lang) THEN <<None, None>>
    ELSE LET l == Lower(lang) IN
         IF FirstCode(l) # 0 THEN <<l, LANG_NAMES[FirstCode(l)]>>
         ELSE IF FirstName(l) # 0
              THEN <<LANG_CODES[FirstName(l)], LANG_NAMES[FirstName(l)]>>
              ELSE <<l, Strip(lang)>>

\* _normalize_lang(lang) -> <<code, display_name>>
_normalize_lang(lang) ==
    IF ~Truthy(lang) THEN <<None, None>>
    ELSE LET l == Lower(Strip(lang)) IN
         IF FirstCode(l) # 0 THEN <<l, LANG_NAMES[FirstCode(l)]>>
         ELSE IF FirstName(l) # 0
              THEN <<LANG_CODES[FirstName(l)], LANG_NAMES[FirstName(l)]>>
              ELSE <<l, Strip(lang)>>

\* _build_system_prompt: the prompt names the source display name (or asks for
\* auto-detection when there is none) and the target display name.
_build_system_prompt(source_disp, target_disp) ==
    [source |-> IF Truthy(source_disp) THEN source_disp ELSE None,
     target |-> target_disp]

(***************************************************************************)
(* Inputs of the model                                                     *)
(***************************************************************************)
\* Language tokens a caller may pass.
LangTokens ==
    { <<"e","n">>, <<"E","N">>, <<" ","e","n"," ">>,
      <<"E","n","g","l","i","s","h">>, <<"e","n","g","l","i","s","h">>,
      <<"e","s">>, <<"S","p","a","n","i","s","h">>,
      <<"x","x">>, <<"X","x"," ">>, <<" ">>, EmptyStr, None }

\* Texts handed to the translator (transcripts).
Texts == { EmptyStr, <<"h","i">>, <<" ","h","i">>, <<"y","o">> }

\* What generate_content may answer: a response whose text attribute is one of
\* these, a response without text (None), or an exception ("raise").
EngineTexts ==
    { None, EmptyStr, <<" ">>, <<"h","i">>, <<"h","o","l","a">>,
      <<" ","h","o","l","a","\n">> }

(***************************************************************************)
(* translator.py: Translator.translate                                     *)
(***************************************************************************)
\* The prompt sent to the model for (to_lang, from_lang, text).
TranslatePrompt(to_lang, from_lang, text) ==
    [system |-> _build_system_prompt(_normalize_lang(from_lang)[2],
                                     Or(_normalize_lang(to_lang)[2], to_lang)),
     text   |-> text]

\* translated_text = (getattr(response, "text", "") or "").strip()
ResponseText(response_text) == Strip(Or(response_text, EmptyStr))

\* The dict Translator.translate returns, given the engine's response text.
TranslateResult(to_lang, from_lang, text, response_text) ==
    [translated_text |-> ResponseText(response_text),
     from_lang |-> Or(Or(_normalize_lang(from_lang)[1], from_lang), EmptyStr),
     to_lang   |-> Or(Or(_normalize_lang(to_lang)[1], to_lang), EmptyStr)]

VARIABLES
    tr_pc,      \* position of the Translator.translate call
    tr_in,      \* its arguments [to_lang, from_lang, text]
    tr_calls,   \* prompts sent to the remote translation engine, in order
    tr_out,     \* the dict returned (None before the return)
    tr_norm     \* the locals (from_code, from_disp) and (to_code, to_disp)

trVars == <<tr_pc, tr_in, tr_calls, tr_out, tr_norm>>

VARIABLES
    _voice_cache,  \* translator.py line 93: (voice_name, file_hash) -> voice id
    sha256,        \* the digest function: content -> 16 hex digit prefix
    vc,            \* per thread: position and locals of _create_or_get_voice
    create_calls,  \* clone-creation calls issued so far: <<name, path>> -> count
    minted,        \* number of voice ids the collaborator has minted
    fallen,        \* keys under which a fallback id has been stored
    calls_begun    \* number of _create_or_get_voice calls begun

vcVars ==
    <<_voice_cache, sha256, vc, create_calls, minted, fallen, calls_begun>>

VARIABLES
    run,           \* the pipeline run in progress: position, locals, history
    out_wav,       \* content of the file out.wav (NoFile before it exists)
    stdout,        \* what the entry point has written to standard output
    exit_code,     \* exit code of the entry point's process (-1 before exit)
    runs_begun,    \* number of pipeline runs begun
    cs             \* per thread: position and locals of clone_and_speak

plVars == <<run, out_wav, stdout, exit_code, runs_begun, cs>>

VARIABLES
    st,              \* per thread: position and locals of _convert_pcm_to_wav
    recordings_dir,  \* whether the directory "recordings" exists
    recordings,      \* the files of that directory: path -> content
    issued,          \* the identifiers uuid4 has handed out
    staged,          \* the staging calls that opened a file: path, bytes, written
    stagings_begun   \* number of _convert_pcm_to_wav calls begun

stVars == <<st, recordings_dir, recordings, issued, staged, stagings_begun>>

vars == <<trVars, vcVars, plVars, stVars>>

TrInputs == [to_lang : LangTokens, from_lang : LangTokens, text : Texts]

\* The locals of translate before lines 70-71 have run.
NotNormalized == [from |-> <<None, None>>, to |-> <<None, None>>]

TrInit ==
    /\ tr_pc = "start"
    /\ tr_in \in TrInputs
    /\ tr_calls = <<>>
    /\ tr_out = None
    /\ tr_norm = NotNormalized

\* lines 70-71: both languages are normalised; line 78: response =
\* self.model.generate_content(prompt); lines 79-86.
TranslateCall ==
    /\ tr_pc = "start"
    /\ tr_norm' = [from |-> _normalize_lang(tr_in.from_lang),
                   to   |-> _normalize_lang(tr_in.to_lang)]
    /\ tr_calls' = Append(tr_calls,
                          TranslatePrompt(tr_in.to_lang, tr_in.from_lang, tr_in.text))
    /\ \/ \E resp \in EngineTexts :
            /\ tr_out' = TranslateResult(tr_in.to_lang, tr_in.from_lang,
                                         tr_in.text, resp)
            /\ tr_pc' = "returned"
       \/ /\ tr_out' = None
          /\ tr_pc' = "raised"
    /\ UNCHANGED tr_in
    /\ UNCHANGED <<vcVars, plVars, stVars>>

TrNext == TranslateCall

\* Two language tokens name the same language: their normalised codes agree.
SameLanguage(a, b) ==
    /\ Truthy(a)
    /\ Truthy(b)
    /\ _normalize_lang(a)[1] = _normalize_lang(b)[1]

\* C1: identity translation. Whenever the source and the target language
\* normalise to the same code, Translator.translate sends nothing to the
\* remote engine, does not fail, and returns translated_text equal to the
\* text it was given.
C1_IdentityTranslation ==
    SameLanguage(tr_in.from_lang, tr_in.to_lang) =>
        /\ tr_calls = <<>>
        /\ tr_pc # "raised"
        /\ tr_pc = "returned" => tr_out.translated_text = tr_in.text

(***************************************************************************)
(* translator.py: the voice cache                                          *)
(***************************************************************************)
\* line 128: the static default voice id "JBFqnCBsd6RMkjVDRZzb".
DEFAULT_VOICE_ID ==
    <<"J","B","F","q","n","C","B","s","d","6",
      "R","M","k","j","V","D","R","Z","z","b">>

\* line 109: the deterministic default voice name "ClonedVoice".
DEFAULT_VOICE_NAME == <<"C","l","o","n","e","d","V","o","i","c","e">>

\* Number of threads that may be inside _create_or_get_voice at once.
NCallers == 2

\* Number of calls of _create_or_get_voice begun in one behaviour.
MaxCalls == 2

Callers == 1 .. NCallers

\* The file system the calls read: path -> bytes, NoFile for a missing path.
\* a.wav and b.wav hold the same bytes, c.wav different ones; the working
\* directory also holds a file whose name is the base64 text "UklGRg==".
NoFile == <<"NoFile">>

BytesX == <<82, 73, 70, 70>>

BytesY == <<82, 73, 70, 70, 0>>

Paths == {"a.wav", "b.wav", "c.wav", "gone.wav"}

FileBytes(path) ==
    CASE path = "a.wav" -> BytesX
      [] path = "b.wav" -> BytesX
      [] path = "c.wav" -> BytesY
      [] path = "UklGRg==" -> BytesY
      [] OTHER -> NoFile

\* Every path a call may name: the files above and the base64 texts that
\* processAudio hands over as saved_wav_path.
AllPaths == Paths \cup {"UklGRg==", "AAAA"}

Contents == {BytesX, BytesY}

\* 16 hex digit prefixes of SHA-256 digests.
Fingerprints == {"3f2a9c0d11e4b7a6", "c01dbeef5ca1ab1e"}

\* Voice names a caller may pass (None selects the default name).
VoiceNames == {None, <<"A","l","i">>}

\* Voice ids the clone-creation collaborator mints: a new one on every call.
Digits == <<"0","1","2","3","4","5","6","7","8","9">>

MintedId(n) == <<"v", Digits[(n % 10) + 1]>>

\* A fingerprint computed from the file's name.
HashOfName(path) ==
    IF path = "a.wav" THEN "3f2a9c0d11e4b7a6" ELSE "c01dbeef5ca1ab1e"

\* _hash_file(path), for a path that exists (open() raises otherwise).
_hash_file(path) == sha256[FileBytes(path)]

\* The key a cache indexed by file path would use.
CacheKeyByPath(voice_name, file_hash, saved_wav_path) ==
    <<voice_name, saved_wav_path>>

\* line 114: cache_key = (voice_name, file_hash)
CacheKey(voice_name, file_hash, saved_wav_path) == <<voice_name, file_hash>>

\* An except branch that substitutes no voice id.
FallbackUnset == None

\* lines 125-128: the voice id the except branch substitutes.
FallbackVoiceId == DEFAULT_VOICE_ID

\* A store that leaves a fallback id out of the cache.
StoreVoiceUnlessFailed(cache, key, voice_id, failed) ==
    IF failed THEN cache
    ELSE [k \in DOMAIN cache \cup {key} |->
            IF k = key THEN voice_id ELSE cache[k]]

\* A store that keeps no entry but the new one.
StoreVoiceAlone(cache, key, voice_id, failed) == [k \in {key} |-> voice_id]

\* line 132: _voice_cache[cache_key] = voice_id (after success and after the
\* except branch alike).
StoreVoice(cache, key, voice_id, failed) ==
    [k \in DOMAIN cache \cup {key} |-> IF k = key THEN voice_id ELSE cache[k]]

IdleCall ==
    [pc |-> "idle", path |-> "", voice_name |-> None, file_hash |-> "",
     voice_id |-> None, how |-> "none"]

VcInit ==
    /\ _voice_cache = <<>>
    /\ sha256 \in [Contents -> Fingerprints]
    /\ vc = [c \in Callers |-> IdleCall]
    /\ create_calls = [k \in {DEFAULT_VOICE_NAME, <<"A","l","i">>} \X AllPaths |-> 0]
    /\ minted = 0
    /\ fallen = {}
    /\ calls_begun = 0

Finished(c) == vc[c].pc \in {"idle", "done", "raised"}

KeyOf(c) == CacheKey(vc[c].voice_name, vc[c].file_hash, vc[c].path)

\* lines 105-111: entry, with the default voice name substituted.
Enter(c, path, voice_name) ==
    /\ Finished(c)
    /\ calls_begun' = calls_begun + 1
    /\ vc' = [vc EXCEPT ![c] =
                [pc |-> "hash", path |-> path,
                 voice_name |-> IF Truthy(voice_name) THEN voice_name
                                ELSE DEFAULT_VOICE_NAME,
                 file_hash |-> "", voice_id |-> None, how |-> "none"]]
    /\ UNCHANGED <<_voice_cache, sha256, create_calls, minted, fallen>>

\* line 113: file_hash = _hash_file(saved_wav_path); open() raises for a
\* missing file and the exception leaves _create_or_get_voice.
HashFile(c) ==
    /\ vc[c].pc = "hash"
    /\ IF FileBytes(vc[c].path) = NoFile
       THEN vc' = [vc EXCEPT ![c].pc = "raised"]
       ELSE vc' = [vc EXCEPT ![c].pc = "check",
                             ![c].file_hash = _hash_file(vc[c].path)]
    /\ UNCHANGED <<_voice_cache, sha256, create_calls, minted, fallen, calls_begun>>
    /\ UNCHANGED <<trVars, stVars, plVars>>

\* lines 116-117: if cache_key in _voice_cache: return _voice_cache[cache_key]
CheckCache(c) ==
    /\ vc[c].pc = "check"
    /\ IF KeyOf(c) \in DOMAIN _voice_cache
       THEN vc' = [vc EXCEPT ![c].pc = "done",
                             ![c].voice_id = _voice_cache[KeyOf(c)],
                             ![c].how = "hit"]
       ELSE vc' = [vc EXCEPT ![c].pc = "create"]
    /\ UNCHANGED <<_voice_cache, sha256, create_calls, minted, fallen, calls_begun>>
    /\ UNCHANGED <<trVars, stVars, plVars>>

\* lines 119-130: the call of create_voice. The collaborator answers with a
\* newly minted id, answers with an id that is None or "", or raises.
CreateVoice(c) ==
    /\ vc[c].pc = "create"
    /\ create_calls' =
         [create_calls EXCEPT ![<<vc[c].voice_name, vc[c].path>>] = @ + 1]
    /\ \/ /\ minted' = minted + 1
          /\ vc' = [vc EXCEPT ![c].pc = "store",
                              ![c].voice_id = MintedId(minted),
                              ![c].how = "created"]
       \/ /\ \E empty \in {None, EmptyStr} :
                vc' = [vc EXCEPT ![c].pc = "store",
                                 ![c].voice_id = empty,
                                 ![c].how = "created"]
          /\ UNCHANGED minted
       \/ /\ vc' = [vc EXCEPT ![c].pc = "store",
                              ![c].voice_id = FallbackVoiceId,
                              ![c].how = "failed"]
          /\ UNCHANGED minted
    /\ UNCHANGED <<_voice_cache, sha256, fallen, calls_begun>>
    /\ UNCHANGED <<trVars, stVars, plVars>>

\* lines 132-133: _voice_cache[cache_key] = voice_id; return voice_id
StoreAndReturn(c) ==
    /\ vc[c].pc = "store"
    /\ _voice_cache' = StoreVoice(_voice_cache, KeyOf(c), vc[c].voice_id,
                                  vc[c].how = "failed")
    /\ fallen' = IF vc[c].how = "failed" THEN fallen \cup {KeyOf(c)} ELSE fallen
    /\ vc' = [vc EXCEPT ![c].pc = "done"]
    /\ UNCHANGED <<sha256, create_calls, minted, calls_begun>>
    /\ UNCHANGED <<trVars, stVars, plVars>>

\* A thread calls _create_or_get_voice while others may be inside it.
Call(c) ==
    /\ calls_begun < MaxCalls
    /\ \E path \in Paths, voice_name \in VoiceNames : Enter(c, path, voice_name)
    /\ UNCHANGED <<trVars, stVars, plVars>>

\* A call that begins only when no other call is in progress.
CallSeq(c) ==
    /\ \A d \in Callers : Finished(d)
    /\ calls_begun < MaxCalls
    /\ \E path \in Paths, voice_name \in VoiceNames : Enter(c, path, voice_name)
    /\ UNCHANGED <<trVars, stVars, plVars>>

VcNext ==
    \E c \in Callers :
        \/ Call(c)
        \/ HashFile(c)
        \/ CheckCache(c)
        \/ CreateVoice(c)
        \/ StoreAndReturn(c)

VcNextSeq ==
    \E c \in Callers :
        \/ CallSeq(c)
        \/ HashFile(c)
        \/ CheckCache(c)
        \/ CreateVoice(c)
        \/ StoreAndReturn(c)

(***************************************************************************)
(* ASR/audio_processor.py: _convert_pcm_to_wav                             *)
(***************************************************************************)
\* Number of threads that may be inside _convert_pcm_to_wav at once.
NStagers == 2

\* Number of calls of _convert_pcm_to_wav begun in one behaviour.
MaxStagings == 3

Stagers == 1 .. NStagers

\* The identifiers uuid4 may hand out; it never hands out one twice.
UUIDs == 1 .. MaxStagings

\* Raw PCM16 buffers a caller may pass.
PcmInputs == {<<1, 2>>, <<3, 4>>}

\* A file name derived from the audio content.
StagedPathOfContent(unique_id, pcm_bytes) ==
    <<"recordings", "audio_", Len(pcm_bytes), ".wav">>

\* lines 196-198: os.path.join("recordings", f"audio_{unique_id}.wav")
StagedPath(unique_id, pcm_bytes) ==
    <<"recordings", "audio_", unique_id, ".wav">>

\* lines 201-213: the WAV file written for a buffer: the header for 16 kHz,
\* one channel, two bytes a sample, then the frames.
WavOf(pcm_bytes) == <<"RIFF", 16000, 1, 2>> \o pcm_bytes

\* line 206: the file just opened with mode 'wb' (created or truncated).
EmptyFile == <<>>

NoPath == <<"recordings", "audio_", 0, ".wav">>

IdleStaging ==
    [pc |-> "idle", pcm |-> <<>>, unique_id |-> 0, path |-> NoPath, no |-> 0]

StInit ==
    /\ st = [c \in Stagers |-> IdleStaging]
    /\ recordings_dir \in BOOLEAN
    /\ recordings = <<>>
    /\ issued = {}
    /\ staged = <<>>
    /\ stagings_begun = 0

StFinished(c) == st[c].pc \in {"idle", "done", "raised"}

\* line 173: a call of _convert_pcm_to_wav(pcm_bytes) begins.
StEnter(c, pcm_bytes) ==
    /\ StFinished(c)
    /\ stagings_begun' = stagings_begun + 1
    /\ st' = [st EXCEPT ![c] = [IdleStaging EXCEPT !.pc = "checkdir",
                                                   !.pcm = pcm_bytes]]
    /\ UNCHANGED <<recordings_dir, recordings, issued, staged>>

\* line 191: if not os.path.exists(recordings_dir)
StCheckDir(c) ==
    /\ st[c].pc = "checkdir"
    /\ st' = [st EXCEPT ![c].pc = IF recordings_dir THEN "uuid" ELSE "makedirs"]
    /\ UNCHANGED <<recordings_dir, recordings, issued, staged, stagings_begun>>
    /\ UNCHANGED <<trVars, vcVars, plVars>>

\* line 192: os.makedirs(recordings_dir), which raises FileExistsError when
\* the directory has appeared since the test.
StMakeDirs(c) ==
    /\ st[c].pc = "makedirs"
    /\ IF recordings_dir
       THEN /\ st' = [st EXCEPT ![c].pc = "raised"]
            /\ UNCHANGED recordings_dir
       ELSE /\ st' = [st EXCEPT ![c].pc = "uuid"]
            /\ recordings_dir' = TRUE
    /\ UNCHANGED <<recordings, issued, staged, stagings_begun>>
    /\ UNCHANGED <<trVars, vcVars, plVars>>

\* lines 196-198: unique_id = str(uuid.uuid4()); the path is built from it.
StUuid4(c) ==
    /\ st[c].pc = "uuid"
    /\ \E u \in UUIDs \ issued :
          /\ issued' = issued \cup {u}
          /\ st' = [st EXCEPT ![c].pc = "open", ![c].unique_id = u,
                              ![c].path = StagedPath(u, st[c].pcm)]
    /\ UNCHANGED <<recordings_dir, recordings, staged, stagings_begun>>
    /\ UNCHANGED <<trVars, vcVars, plVars>>

\* line 206: wave.open(wav_file_path, 'wb') creates the file or truncates
\* the one that is there; it raises when the file cannot be created.
StWaveOpen(c) ==
    /\ st[c].pc = "open"
    /\ \/ /\ recordings' =
                [q \in DOMAIN recordings \cup {st[c].path} |->
                    IF q = st[c].path THEN EmptyFile ELSE recordings[q]]
          /\ staged' = Append(staged, [path |-> st[c].path, pcm |-> st[c].pcm,
                                       written |-> FALSE])
          /\ st' = [st EXCEPT ![c].pc = "write", ![c].no = Len(staged) + 1]
       \/ /\ st' = [st EXCEPT ![c].pc = "raised"]
          /\ UNCHANGED <<recordings, staged>>
    /\ UNCHANGED <<recordings_dir, issued, stagings_begun>>
    /\ UNCHANGED <<trVars, vcVars, plVars>>

\* lines 208-216: the parameters and the frames are written, the file is
\* closed and the path is returned.
StWriteFrames(c) ==
    /\ st[c].pc = "write"
    /\ recordings' = [recordings EXCEPT ![st[c].path] = WavOf(st[c].pcm)]
    /\ staged' = [staged EXCEPT ![st[c].no].written = TRUE]
    /\ st' = [st EXCEPT ![c].pc = "done"]
    /\ UNCHANGED <<recordings_dir, issued, stagings_begun>>
    /\ UNCHANGED <<trVars, vcVars, plVars>>

\* A thread calls _convert_pcm_to_wav while others may be inside it.
StCall(c) ==
    /\ stagings_begun < MaxStagings
    /\ \E pcm_bytes \in PcmInputs : StEnter(c, pcm_bytes)
    /\ UNCHANGED <<trVars, vcVars, plVars>>

StNext ==
    \E c \in Stagers :
        \/ StCall(c)
        \/ StCheckDir(c)
        \/ StMakeDirs(c)
        \/ StUuid4(c)
        \/ StWaveOpen(c)
        \/ StWriteFrames(c)

\* C18: every staged audio artifact has a unique staged path. Any two
\* staging calls, one after the other or concurrent, on identical or
\* different PCM bytes, open different file paths, and a file whose call
\* has finished writing holds the WAV of that call's bytes (no other call
\* has overwritten it).
C18_UniqueStagedPath ==
    /\ \A i, j \in DOMAIN staged : i # j => staged[i].path # staged[j].path
    /\ \A i \in DOMAIN staged :
          staged[i].written => recordings[staged[i].path] = WavOf(staged[i].pcm)

C18_Witness ==
    /\ Len(staged) = 2
    /\ staged[1].pcm = staged[2].pcm
    /\ staged[1].written
    /\ staged[2].written
    /\ st[1].pc = "done"
    /\ st[2].pc = "done"
    /\ st[1].path # st[2].path
    /\ recordings[staged[1].path] = WavOf(staged[1].pcm)

(***************************************************************************)
(* The pipeline: receive_data, translate_text, clone_and_speak,            *)
(* processAudio and the entry point                                        *)
(***************************************************************************)
\* Number of pipeline runs begun in one behaviour (they share the cache).
MaxRuns == 2

\* The value None where base64 text is expected.
AudioNone == "<None>"

\* base64.b64decode accepts these texts ("" decodes to no bytes) and raises
\* on the others ("A" has a wrong length; None is no string).
B64Valid(audio) == audio \in {"UklGRg==", "AAAA", ""}

\* Requests the entry point may read from standard input.
MainFromLangs == {<<"e","n">>, None}

MainToLangs == {<<"e","s">>, None}

MainAudio == {"UklGRg==", "AAAA", "A", AudioNone}

\* What the transcription engine may answer (or it raises).
SttTexts == {EmptyStr, <<"h","i">>}

\* What the translation engine may answer inside a run (or it raises).
RunEngineTexts == {None, <<" ">>, <<"h","o","l","a">>}

\* Chunk sequences the synthesis engine may stream.
ChunkStreams == {<<>>, <<"c1">>, <<"c1", "c2">>}

\* The collaborator calls one run has issued.
NoCalls == [stt |-> 0, translate |-> 0, clone |-> 0, synth |-> 0]

\* Nothing has been read from standard input.
NoInput ==
    [json |-> "none", wav_path |-> "", from_lang |-> None, to_lang |-> None]

\* No object has been returned to the caller.
NoResult == [returned |-> FALSE]

\* The value of an attribute or key "text" that is not there.
Absent == <<"Absent">>

\* No answer of the transcription engine has been received.
NoResponse == [shape |-> "none", value |-> Absent]

NoRun ==
    [kind |-> "none", pc |-> "idle",
     from_lang |-> None, to_lang |-> None, audio |-> AudioNone,
     text |-> None, path |-> "", voice_name |-> None,
     translation |-> None, voice_id |-> None, file |-> AudioNone,
     stream |-> <<>>, yielded |-> <<>>,
     transcript |-> None, clone_failed |-> FALSE,
     pcm |-> <<>>, wav_file_path |-> NoPath,
     api_key |-> TRUE, processing |-> TRUE, result |-> NoResult,
     chunks |-> <<>>, fetched |-> <<>>, response |-> NoResponse,
     temp_file |-> NoFile, side |-> "none", input |-> NoInput,
     visited |-> <<>>, requests |-> <<>>, calls |-> NoCalls,
     creates0 |-> 0, env_ok |-> TRUE]

RECURSIVE SumAll(_)
SumAll(keys) ==
    IF keys = {} THEN 0
    ELSE LET k == CHOOSE q \in keys : TRUE IN
         create_calls[k] + SumAll(keys \ {k})

\* All create_voice calls issued so far.
TotalCreates == SumAll(DOMAIN create_calls)

\* Number of threads that may iterate clone_and_speak at once, each once.
NSpeakers == 2

\* The process of the entry point has not exited.
NotExited == -1

PlInit ==
    /\ run = NoRun
    /\ out_wav = NoFile
    /\ stdout = <<>>
    /\ exit_code = NotExited
    /\ runs_begun = 0
    /\ cs = [c \in 1 .. NSpeakers |->
                [pc |-> "idle", stream |-> <<>>, yielded |-> <<>>]]

\* The run has ended and, when it runs behind apps/main.py, the process has
\* written its output and exited.
RunOver ==
    /\ run.pc \in {"idle", "done", "returned", "failed"}
    /\ run.kind = "pipeline" => exit_code # NotExited

Visit(state) == Append(run.visited, state)

\* An except branch that records the failure and lets the run go on.
FailAndGoOn == [run EXCEPT !.visited = Visit("Failed")]

\* An exception leaves the run: the entry point's except branch (main.py
\* lines 55-57) or the caller of the function.
Fail == [run EXCEPT !.pc = "failed", !.visited = Visit("Failed")]

FailEnv == [Fail EXCEPT !.env_ok = FALSE]

NewRun(kind, pc) ==
    [NoRun EXCEPT !.kind = kind, !.pc = pc, !.creates0 = TotalCreates]

\* main.py lines 36-49: the entry point reads the request and validates it.
StartMain ==
    /\ RunOver
    /\ runs_begun < MaxRuns
    /\ runs_begun' = runs_begun + 1
    /\ \E f \in MainFromLangs, t \in MainToLangs, a \in MainAudio :
          run' = [NewRun("main", "m_validate") EXCEPT
                    !.from_lang = f, !.to_lang = t, !.audio = a]
    /\ stdout' = <<>>
    /\ UNCHANGED <<out_wav, cs, exit_code, trVars, stVars, vcVars>>

\* main.py lines 46-49: if not all([from_lang, to_lang, audio_b64]): raise
MainValidate ==
    /\ run.pc = "m_validate"
    /\ IF Truthy(run.from_lang) /\ Truthy(run.to_lang)
          /\ run.audio \notin {AudioNone, ""}
       THEN run' = [run EXCEPT !.pc = "ra_decode"]
       ELSE run' = FailEnv
    /\ UNCHANGED <<out_wav, cs, stdout, exit_code, runs_begun, trVars, stVars, vcVars>>

\* audio_processor.py line 17: audio_data = BytesIO(base64.b64decode(audio_file))
ReceiveDecode ==
    /\ run.pc = "ra_decode"
    /\ IF B64Valid(run.audio)
       THEN run' = [run EXCEPT !.pc = "ra_stt", !.visited = Visit("Staged")]
       ELSE run' = FailEnv
    /\ UNCHANGED <<out_wav, cs, stdout, exit_code, runs_begun, trVars, stVars, vcVars>>

\* audio_processor.py lines 18-27: the transcription call; receive_data
\* returns the text with the languages and the base64 text as audio_data.
ReceiveTranscribe ==
    /\ run.pc = "ra_stt"
    /\ \/ \E t \in SttTexts :
            run' = [run EXCEPT !.pc = "tt_translate", !.text = t,
                               !.transcript = t,
                               !.path = run.audio,
                               !.calls.stt = @ + 1,
                               !.visited = Visit("Transcribed")]
       \/ run' = [FailEnv EXCEPT !.calls.stt = @ + 1]
    /\ UNCHANGED <<out_wav, cs, stdout, exit_code, runs_begun, trVars, stVars, vcVars>>

\* A caller invokes translate_text directly.
StartTranslateText ==
    /\ RunOver
    /\ runs_begun < MaxRuns
    /\ runs_begun' = runs_begun + 1
    /\ \E t \in {<<"e","s">>}, x \in SttTexts,
          p \in Paths, n \in VoiceNames :
          run' = [NewRun("translate_text", "tt_translate") EXCEPT
                    !.from_lang = <<"e","n">>, !.to_lang = t, !.text = x,
                    !.transcript = x, !.path = p, !.voice_name = n]
    /\ UNCHANGED <<out_wav, cs, stdout, exit_code, trVars, stVars, vcVars>>

\* The statement of translate_text that follows the translation (line 145).
TT_TtsFirst == "tt_tts"

TT_AfterTranslate == "tt_voice"

\* translator.py line 142: translation_result = _translator_singleton.translate(...)
TT_Translate ==
    /\ run.pc = "tt_translate"
    /\ \/ \E resp \in RunEngineTexts :
            run' = [run EXCEPT
                      !.pc = TT_AfterTranslate,
                      !.translation =
                          TranslateResult(run.to_lang, run.from_lang, run.text, resp),
                      !.calls.translate = @ + 1,
                      !.visited = Visit("Translated")]
       \/ run' = [FailEnv EXCEPT !.calls.translate = @ + 1]
    /\ UNCHANGED <<out_wav, cs, stdout, exit_code, runs_begun, trVars, stVars, vcVars>>

\* translator.py lines 145-149: the call of _create_or_get_voice begins.
TT_Voice ==
    /\ run.pc = "tt_voice"
    /\ Enter(1, run.path, run.voice_name)
    /\ run' = [run EXCEPT !.pc = "tt_voice_wait"]
    /\ UNCHANGED <<out_wav, cs, stdout, exit_code, runs_begun, trVars, stVars>>

\* translator.py line 145: _create_or_get_voice returns its voice id, or the
\* exception of _hash_file leaves translate_text; the frame of the call is
\* gone.
TT_VoiceReturn ==
    /\ run.pc = "tt_voice_wait"
    /\ vc[1].pc \in {"done", "raised"}
    /\ IF vc[1].pc = "done"
       THEN run' = [run EXCEPT !.pc = "tt_tts",
                               !.voice_id = vc[1].voice_id,
                               !.clone_failed = (vc[1].how = "failed"),
                               !.env_ok = @ /\ vc[1].how # "failed"
                                            /\ Truthy(vc[1].voice_id),
                               !.visited = Visit("VoiceReady")]
       ELSE run' = Fail
    /\ vc' = [vc EXCEPT ![1] = IdleCall]
    /\ UNCHANGED <<_voice_cache, sha256, create_calls, minted, fallen, calls_begun>>
    /\ UNCHANGED <<out_wav, cs, stdout, exit_code, runs_begun, trVars, stVars>>

\* A translate_text that also hands the recording on under "file".
TranslateTextWithFile(translation_result, voice_id, saved_wav_path) ==
    [translated_text |-> translation_result.translated_text,
     from_lang |-> translation_result.from_lang,
     to_lang |-> translation_result.to_lang,
     voice_id |-> voice_id,
     file |-> saved_wav_path]

\* translator.py lines 157-161: the dict translate_text returns (audio_stream,
\* the generator of text_to_speech_stream, is left out).
TranslateTextResult(translation_result, voice_id, saved_wav_path) ==
    [translated_text |-> translation_result.translated_text,
     from_lang |-> translation_result.from_lang,
     to_lang |-> translation_result.to_lang,
     voice_id |-> voice_id]

\* dict.get(key) for a key whose value is base64 text.
GetFile(d) == IF "file" \in DOMAIN d THEN d.file ELSE AudioNone

\* translator.py lines 152-161: text_to_speech_stream(text, voice_id) is
\* requested and translate_text returns; main.py lines 29-32: processAudio
\* builds the generator clone_and_speak(response_trans.get("file"),
\* response_trans.get("translated_text")).
TT_Synthesize ==
    /\ run.pc = "tt_tts"
    /\ LET req == [via |-> "text_to_speech_stream",
                   text |-> run.translation.translated_text,
                   voice_id |-> run.voice_id]
           res == TranslateTextResult(run.translation, run.voice_id, run.path)
       IN  \/ run' = [run EXCEPT
                        !.pc = IF run.kind = "main" THEN "cs_decode" ELSE "returned",
                        !.file = GetFile(res),
                        !.text = res.translated_text,
                        !.requests = Append(@, req),
                        !.calls.synth = @ + 1,
                        !.visited = Visit("Synthesizing")]
           \/ run' = [FailEnv EXCEPT !.requests = Append(@, req),
                                     !.calls.synth = @ + 1]
    /\ UNCHANGED <<out_wav, cs, stdout, exit_code, runs_begun, trVars, stVars, vcVars>>

\* A caller iterates clone_and_speak(audio_b64, text) directly.
StartCloneAndSpeak ==
    /\ RunOver
    /\ runs_begun < MaxRuns
    /\ runs_begun' = runs_begun + 1
    /\ \E a \in {"UklGRg==", "A", AudioNone}, x \in {EmptyStr, <<"h","o","l","a">>} :
          run' = [NewRun("clone_and_speak", "cs_decode") EXCEPT
                    !.file = a, !.text = x]
    /\ UNCHANGED <<out_wav, cs, stdout, exit_code, trVars, stVars, vcVars>>

\* processing.py lines 73-75: data_bytes = base64.b64decode(audio_b64)
CS_Decode ==
    /\ run.pc = "cs_decode"
    /\ IF B64Valid(run.file)
       THEN run' = [run EXCEPT !.pc = "cs_create"]
       ELSE run' = IF run.kind = "main" THEN Fail ELSE FailEnv
    /\ UNCHANGED <<out_wav, cs, stdout, exit_code, runs_begun, trVars, stVars, vcVars>>

\* processing.py lines 77-87: voices.ivc.create, then the voice id is read
\* from the answer and an answer without one raises RuntimeError.
CS_Create ==
    /\ run.pc = "cs_create"
    /\ \/ /\ minted' = minted + 1
          /\ run' = [run EXCEPT !.pc = "cs_convert",
                                !.voice_id = MintedId(minted),
                                !.calls.clone = @ + 1,
                                !.visited = Visit("VoiceReady")]
       \/ /\ run' = [FailEnv EXCEPT !.calls.clone = @ + 1,
                                     !.clone_failed = TRUE]
          /\ UNCHANGED minted
    /\ UNCHANGED <<_voice_cache, sha256, vc, create_calls, fallen, calls_begun>>
    /\ UNCHANGED <<out_wav, cs, stdout, exit_code, runs_begun, trVars, stVars>>

\* processing.py lines 90-95: audio_stream = text_to_speech.convert(...)
CS_Convert ==
    /\ run.pc = "cs_convert"
    /\ LET req == [via |-> "text_to_speech.convert",
                   text |-> run.text, voice_id |-> run.voice_id]
       IN  \/ \E chunks \in ChunkStreams :
                 run' = [run EXCEPT !.pc = "cs_open", !.stream = chunks,
                                    !.chunks = chunks,
                                    !.requests = Append(@, req),
                                    !.calls.synth = @ + 1,
                                    !.visited = Visit("Synthesizing")]
           \/ run' = [FailEnv EXCEPT !.requests = Append(@, req),
                                     !.calls.synth = @ + 1]
    /\ UNCHANGED <<out_wav, cs, stdout, exit_code, runs_begun, trVars, stVars, vcVars>>

\* processing.py line 100: with open("out.wav", "wb") as f
CS_Open ==
    /\ run.pc = "cs_open"
    /\ out_wav' = <<>>
    /\ run' = [run EXCEPT !.pc = "cs_stream"]
    /\ UNCHANGED <<stdout, cs, exit_code, runs_begun, trVars, stVars, vcVars>>

\* A loop that takes the chunks from the far end of the stream.
LastChunk(stream) == stream[Len(stream)]

\* processing.py line 101: `for chunk in audio_stream` takes the chunks in the
\* order the engine produces them.
NextChunk(stream) == Head(stream)

RestChunks(stream) == Tail(stream)

\* processing.py line 101: for chunk in audio_stream -- the next chunk is
\* requested from the synthesis engine, which hands it over or raises.
CS_Fetch ==
    /\ run.pc = "cs_stream"
    /\ run.stream # <<>>
    /\ \/ run' = [run EXCEPT !.pc = "cs_yield",
                             !.fetched = Append(@, NextChunk(run.stream)),
                             !.stream = RestChunks(@)]
       \/ run' = FailEnv
    /\ UNCHANGED <<out_wav, cs, stdout, exit_code, runs_begun, trVars, stVars, vcVars>>

\* processing.py line 101: f.write(chunk); yield chunk; main.py lines 51-54:
\* the entry point writes the chunk it is handed to stdout.
CS_Chunk ==
    /\ run.pc = "cs_yield"
    /\ LET chunk == run.fetched[Len(run.fetched)] IN
          /\ out_wav' = Append(out_wav, chunk)
          /\ stdout' = IF run.kind = "main" THEN Append(stdout, chunk) ELSE stdout
          /\ run' = [run EXCEPT !.pc = "cs_stream", !.yielded = Append(@, chunk)]
    /\ UNCHANGED <<cs, exit_code, runs_begun, trVars, stVars, vcVars>>

\* processing.py lines 101-102: the stream is exhausted, the file is closed
\* and the generator returns.
CS_End ==
    /\ run.pc = "cs_stream"
    /\ run.stream = <<>>
    /\ run' = [run EXCEPT !.pc = "done", !.visited = Visit("Done")]
    /\ UNCHANGED <<out_wav, cs, stdout, exit_code, runs_begun, trVars, stVars, vcVars>>

PlNext ==
    \/ StartMain
    \/ MainValidate
    \/ ReceiveDecode
    \/ ReceiveTranscribe
    \/ StartTranslateText
    \/ TT_Translate
    \/ TT_Voice
    \/ TT_VoiceReturn
    \/ TT_Synthesize
    \/ StartCloneAndSpeak
    \/ CS_Decode
    \/ CS_Create
    \/ CS_Convert
    \/ CS_Open
    \/ CS_Fetch
    \/ CS_Chunk
    \/ CS_End
    \/ HashFile(1)
    \/ CheckCache(1)
    \/ CreateVoice(1)
    \/ StoreAndReturn(1)

(***************************************************************************)
(* processing.py: clone_and_speak iterated by several threads in one       *)
(* working directory                                                       *)
(***************************************************************************)
\* f.write(chunk) through a handle that has written pos chunks: the chunk
\* goes to the handle's own offset, over what is there, and a file that has
\* been truncated below the offset is padded with a hole.
WriteAt(file, pos, chunk) ==
    [i \in 1 .. (IF Len(file) > pos + 1 THEN Len(file) ELSE pos + 1) |->
        IF i = pos + 1 THEN chunk
        ELSE IF i <= Len(file) THEN file[i] ELSE "hole"]

\* processing.py lines 64-95: a thread begins to iterate
\* clone_and_speak(audio_b64, text); the voice is created and
\* text_to_speech.convert returns the stream.
SpStart(c) ==
    /\ cs[c].pc = "idle"
    /\ \E chunks \in ChunkStreams \cup {<<"d1">>} :
          cs' = [cs EXCEPT ![c] = [pc |-> "open", stream |-> chunks,
                                   yielded |-> <<>>]]
    /\ minted' = minted + 1
    /\ UNCHANGED <<_voice_cache, sha256, vc, create_calls, fallen, calls_begun>>
    /\ UNCHANGED <<run, out_wav, stdout, exit_code, runs_begun, trVars, stVars>>

\* line 100: with open("out.wav", "wb") as f -- the file is created or
\* truncated, and the handle starts at offset 0.
SpOpen(c) ==
    /\ cs[c].pc = "open"
    /\ out_wav' = <<>>
    /\ cs' = [cs EXCEPT ![c].pc = "stream"]
    /\ UNCHANGED <<run, stdout, exit_code, runs_begun, trVars, vcVars, stVars>>

\* line 101: for chunk in audio_stream: f.write(chunk); yield chunk
SpChunk(c) ==
    /\ cs[c].pc = "stream"
    /\ cs[c].stream # <<>>
    /\ out_wav' = WriteAt(out_wav, Len(cs[c].yielded), NextChunk(cs[c].stream))
    /\ cs' = [cs EXCEPT ![c].stream = RestChunks(@),
                        ![c].yielded = Append(@, NextChunk(cs[c].stream))]
    /\ UNCHANGED <<run, stdout, exit_code, runs_begun, trVars, vcVars, stVars>>

\* lines 101-102: the stream is exhausted, the file is closed and the
\* generator returns.
SpEnd(c) ==
    /\ cs[c].pc = "stream"
    /\ cs[c].stream = <<>>
    /\ cs' = [cs EXCEPT ![c].pc = "done"]
    /\ UNCHANGED <<run, out_wav, stdout, exit_code, runs_begun>>
    /\ UNCHANGED <<trVars, vcVars, stVars>>

SpNext ==
    \E c \in 1 .. NSpeakers :
        \/ SpStart(c)
        \/ SpOpen(c)
        \/ SpChunk(c)
        \/ SpEnd(c)

(***************************************************************************)
(* ASR/audio_processor.py: process_audio                                   *)
(***************************************************************************)
\* lines 239-242: the transcript returned when no API key is configured.
MockText == <<"m","o","c","k">>

\* lines 67-72: result_json
ResultJson(from_lang, to_lang, text, detected_language) ==
    [from |-> from_lang, to |-> to_lang, text |-> text,
     detected_language |-> detected_language]

\* lines 91-104: error_response
ErrorResponse(from_lang, to_lang, error_message) ==
    [from |-> from_lang, to |-> to_lang, text |-> EmptyStr,
     detected_language |-> EmptyStr,
     error |-> <<"Error processing audio", error_message>>]

\* A caller invokes process_audio(from_lang, to_lang, pcm_bytes); the
\* environment has an API key or none, and processing.py was imported or not.
StartProcessAudio ==
    /\ RunOver
    /\ runs_begun < MaxRuns
    /\ runs_begun' = runs_begun + 1
    /\ \E b \in PcmInputs, k \in BOOLEAN, a \in BOOLEAN :
          run' = [NewRun("process_audio", "pa_stage") EXCEPT
                    !.from_lang = <<"e","n">>, !.to_lang = <<"e","s">>,
                    !.pcm = b, !.api_key = k, !.processing = a]
    /\ UNCHANGED <<out_wav, cs, stdout, exit_code, trVars, vcVars, stVars>>

\* line 58: wav_file_path = _convert_pcm_to_wav(pcm_bytes) begins.
PA_Stage ==
    /\ run.pc = "pa_stage"
    /\ StEnter(1, run.pcm)
    /\ run' = [run EXCEPT !.pc = "pa_stage_wait"]
    /\ UNCHANGED <<out_wav, cs, stdout, exit_code, runs_begun, trVars, vcVars>>

\* line 58: _convert_pcm_to_wav returns the path, or its exception reaches
\* the except branch of process_audio (lines 91-104).
PA_StageReturn ==
    /\ run.pc = "pa_stage_wait"
    /\ st[1].pc \in {"done", "raised"}
    /\ IF st[1].pc = "done"
       THEN run' = [run EXCEPT !.pc = "pa_stt",
                               !.wav_file_path = st[1].path,
                               !.visited = Visit("Staged")]
       ELSE run' = [FailEnv EXCEPT
                      !.result = ErrorResponse(run.from_lang, run.to_lang,
                                               "staging")]
    /\ st' = [st EXCEPT ![1] = IdleStaging]
    /\ UNCHANGED <<recordings_dir, recordings, issued, staged, stagings_begun>>
    /\ UNCHANGED <<out_wav, cs, stdout, exit_code, runs_begun, trVars, vcVars>>

\* What speech_to_text.convert may answer: an object whose attribute text is
\* a string or None, an object without that attribute, a dict with or
\* without the key "text", or a plain string.
SttResponses ==
    { [shape |-> "object", value |-> <<"h","i">>],
      [shape |-> "object", value |-> <<" ","h","i","\n">>],
      [shape |-> "object", value |-> None],
      [shape |-> "object", value |-> Absent],
      [shape |-> "dict",   value |-> <<"h","i">>],
      [shape |-> "dict",   value |-> Absent],
      [shape |-> "string", value |-> <<"h","i"," ">>] }

\* str(result): a string is itself, any other object is its representation.
Str(result) ==
    IF result.shape = "string" THEN result.value
    ELSE <<"<","o","b","j","e","c","t",">">>

\* lines 265-274: transcribed_text for each shape of the answer.
TranscribedText(result) ==
    IF result.shape = "object" /\ result.value # Absent THEN result.value
    ELSE IF result.shape = "dict"
         THEN IF result.value = Absent THEN EmptyStr ELSE result.value
         ELSE Str(result)

\* lines 63-72 and 219-306: _transcribe_with_elevenlabs. Without an API key
\* it returns the mock transcript; otherwise the engine answers and the text
\* is taken from the answer (line 276 subscripts it, which raises for None),
\* or the call raises; an exception reaches the except branch of
\* process_audio.
PA_Transcribe ==
    /\ run.pc = "pa_stt"
    /\ IF ~run.api_key
       THEN run' = [run EXCEPT !.pc = "pa_translate", !.text = MockText,
                               !.transcript = MockText,
                               !.visited = Visit("Transcribed")]
       ELSE \/ \E result \in SttResponses :
                 IF TranscribedText(result) = None
                 THEN run' = [FailEnv EXCEPT
                                !.calls.stt = @ + 1,
                                !.response = result,
                                !.result = ErrorResponse(run.from_lang, run.to_lang,
                                                "Error calling ElevenLabs API")]
                 ELSE run' = [run EXCEPT !.pc = "pa_translate",
                                         !.text = TranscribedText(result),
                                         !.transcript = TranscribedText(result),
                                         !.response = result,
                                         !.calls.stt = @ + 1,
                                         !.visited = Visit("Transcribed")]
            \/ run' = [FailEnv EXCEPT
                         !.calls.stt = @ + 1,
                         !.result = ErrorResponse(run.from_lang, run.to_lang,
                                                  "Error calling ElevenLabs API")]
    /\ UNCHANGED <<out_wav, cs, stdout, exit_code, runs_begun, trVars, vcVars, stVars>>

\* lines 76-80 and 309-343: _call_translator_service only prints.
PA_Translate ==
    /\ run.pc = "pa_translate"
    /\ run' = [run EXCEPT !.pc = "pa_send"]
    /\ UNCHANGED <<out_wav, cs, stdout, exit_code, runs_begun, trVars, vcVars, stVars>>

\* A failure of the side call that reaches the except branch of
\* process_audio.
SideCallPropagates(r, res, how) ==
    [r EXCEPT !.pc = "failed", !.visited = Append(@, "Failed"), !.side = how,
              !.result = ErrorResponse(r.from_lang, r.to_lang, how)]

\* lines 412-414 and 86-89: the except branch of _send_audio_file prints the
\* exception and returns, and process_audio returns result_json.
SideCallSwallowed(r, res, how) ==
    [r EXCEPT !.pc = "returned", !.side = how, !.result = res]

\* lines 84-89 and 346-415: _send_audio_file returns at once when the staged
\* file is not there (line 364) or processing.py was not imported (line
\* 373); otherwise it clones the voice from the file and writes the
\* voice-info file, and an exception of either is swallowed. Then
\* process_audio returns result_json.
PA_Send ==
    /\ run.pc = "pa_send"
    /\ LET res == ResultJson(run.from_lang, run.to_lang, run.text, run.from_lang)
       IN  \/ /\ run' = [run EXCEPT !.pc = "returned", !.side = "missing file",
                                     !.result = res]
              /\ UNCHANGED minted
           \/ /\ ~run.processing
              /\ run' = [run EXCEPT !.pc = "returned", !.side = "unavailable",
                                     !.result = res]
              /\ UNCHANGED minted
           \/ /\ run.processing
              /\ minted' = minted + 1
              /\ \/ run' = [run EXCEPT !.pc = "returned", !.side = "sent",
                                        !.result = res,
                                        !.voice_id = MintedId(minted),
                                        !.calls.clone = @ + 1]
                 \/ run' = [SideCallSwallowed(run, res, "voice info not written")
                               EXCEPT !.voice_id = MintedId(minted),
                                      !.calls.clone = @ + 1]
           \/ /\ run.processing
              /\ run' = [SideCallSwallowed(run, res, "create_voice raised")
                            EXCEPT !.calls.clone = @ + 1,
                                   !.clone_failed = TRUE]
              /\ UNCHANGED minted
    /\ UNCHANGED <<_voice_cache, sha256, vc, create_calls, fallen, calls_begun>>
    /\ UNCHANGED <<out_wav, cs, stdout, exit_code, runs_begun, trVars, stVars>>

(***************************************************************************)
(* apps/main.py: process_audio_pipeline, and process_recording, which it   *)
(* calls                                                                   *)
(***************************************************************************)
\* Values of "wav_path" in a request: two recordings, a text file that
\* exists, a path that does not exist, and an empty value.
WavPaths == {"a.wav", "notes.txt", "gone.wav", ""}

\* A test that finds every path.
PathAlwaysExists(path) == TRUE

\* line 56: os.path.exists(wav_path)
PathExists(path) == FileBytes(path) # NoFile \/ path = "notes.txt"

\* The audio containers staging recognises.
IsAudioContainer(path) == path \in {"a.wav", "b.wav", "c.wav", "gone.wav"}

\* lines 51-54: the result for a request that lacks a parameter.
MissingParameters ==
    [success |-> FALSE, error |-> <<"Missing required parameters", "">>]

\* lines 57-60: the result for a path that does not exist.
FileNotFound(wav_path) ==
    [success |-> FALSE, error |-> <<"Audio file not found", wav_path>>]

\* An except branch that reports the run as successful.
PipelineErrorAsSuccess(e) ==
    [success |-> TRUE, error |-> <<"Pipeline error", e>>]

\* lines 93-97: the result the except branch builds from the exception.
PipelineError(e) == [success |-> FALSE, error |-> <<"Pipeline error", e>>]

\* lines 80-91: the result of a run that went through.
PipelineSuccess(r, output_audio_path) ==
    [success |-> TRUE,
     original_text |-> r.transcript,
     translated_text |-> r.translation.translated_text,
     from_lang |-> r.translation.from_lang,
     to_lang |-> r.translation.to_lang,
     saved_wav_path |-> r.path,
     voice_id |-> r.voice_id,
     audio_file_path |-> output_audio_path]

\* The name of the temporary file (line 75), and no file (line 72).
TempMp3 == "tmp.mp3"

NoOutput == "<None>"

\* ASR/audio_processor.py lines 14-21: importing the module prints a line
\* about processing.py to stdout.
ImportLine == [kind |-> "text", value |-> NoResult]

\* What main() may read from stdin: nothing, text that is no JSON, JSON
\* that is no object, or a request object.
StdinContents ==
    { [NoInput EXCEPT !.json = "empty"], [NoInput EXCEPT !.json = "invalid"],
      [NoInput EXCEPT !.json = "list"] }
    \cup [json : {"object"}, wav_path : WavPaths, from_lang : MainFromLangs,
          to_lang : MainToLangs]

\* An error output that carries no message.
EntryErrorUnreported(message) == [success |-> FALSE]

\* lines 106-109, 115-118 and 125-128: the error outputs of main().
EntryError(message) == [success |-> FALSE, error |-> <<message, "">>]

\* apps/main.py is started: the import of line 36 runs and main() is called.
StartPipeline ==
    /\ RunOver
    /\ runs_begun < MaxRuns
    /\ runs_begun' = runs_begun + 1
    /\ \E content \in StdinContents :
          run' = [NewRun("pipeline", "en_read") EXCEPT !.input = content]
    /\ stdout' = <<ImportLine>>
    /\ exit_code' = NotExited
    /\ UNCHANGED <<out_wav, cs, trVars, vcVars, stVars>>

\* lines 103-118: stdin is read and parsed; without input and for invalid
\* JSON the error output is built, otherwise process_audio_pipeline is
\* called with the parsed value (lines 43-47 read its fields).
EN_Read ==
    /\ run.pc = "en_read"
    /\ run' =
         CASE run.input.json = "empty" ->
                [run EXCEPT !.pc = "returned",
                            !.result = EntryError("No input provided")]
           [] run.input.json = "invalid" ->
                [run EXCEPT !.pc = "returned",
                            !.result = EntryError("Invalid JSON input")]
           [] OTHER ->
                [run EXCEPT !.pc = "pp_validate",
                            !.from_lang = run.input.from_lang,
                            !.to_lang = run.input.to_lang,
                            !.path = run.input.wav_path]
    /\ UNCHANGED <<out_wav, cs, stdout, exit_code, runs_begun, trVars, vcVars, stVars>>

\* lines 120-130: the output is written as JSON and the process ends with
\* exit code 0; when json.dumps raises (a success result whose meta cannot be
\* serialised) the fallback output is written and the exit code is 1.
EN_Write ==
    /\ run.kind = "pipeline"
    /\ run.pc \in {"done", "returned", "failed"}
    /\ exit_code = NotExited
    /\ \/ /\ stdout' = Append(stdout, [kind |-> "json", value |-> run.result])
          /\ exit_code' = 0
       \/ /\ run.pc = "done"
          /\ stdout' = Append(stdout, [kind |-> "json",
                                       value |-> EntryError("Unexpected error")])
          /\ exit_code' = 1
    /\ UNCHANGED <<run, out_wav, cs, runs_begun, trVars, vcVars, stVars>>

\* lines 41-60: a value that is no dict has no get (the AttributeError
\* reaches the except branch); then the required parameters and the existence
\* of the file are checked.
PP_Validate ==
    /\ run.pc = "pp_validate"
    /\ IF run.input.json # "object"
       THEN run' = [FailEnv EXCEPT !.result = PipelineError("AttributeError")]
       ELSE IF run.path = "" \/ ~Truthy(run.from_lang) \/ ~Truthy(run.to_lang)
       THEN run' = [FailEnv EXCEPT !.result = MissingParameters]
       ELSE IF ~PathExists(run.path)
            THEN run' = [FailEnv EXCEPT !.result = FileNotFound(run.path)]
            ELSE run' = [run EXCEPT !.pc = "pr_stage"]
    /\ UNCHANGED <<out_wav, cs, stdout, exit_code, runs_begun, trVars, vcVars, stVars>>

\* process_recording, staging: the format is validated and an unrecognised
\* container fails with UnsupportedFormat.
PR_Stage ==
    /\ run.pc = "pr_stage"
    /\ IF IsAudioContainer(run.path)
       THEN run' = [run EXCEPT !.pc = "pr_stt", !.visited = Visit("Staged")]
       ELSE run' = [FailEnv EXCEPT !.result = PipelineError("UnsupportedFormat")]
    /\ UNCHANGED <<out_wav, cs, stdout, exit_code, runs_begun, trVars, vcVars, stVars>>

\* process_recording, transcription: the engine answers or the stage fails
\* with TranscriptionFailed.
PR_Transcribe ==
    /\ run.pc = "pr_stt"
    /\ \/ \E t \in SttTexts :
            run' = [run EXCEPT !.pc = "pr_translate", !.text = t,
                               !.transcript = t, !.calls.stt = @ + 1,
                               !.visited = Visit("Transcribed")]
       \/ run' = [FailEnv EXCEPT !.calls.stt = @ + 1,
                                 !.result = PipelineError("TranscriptionFailed")]
    /\ UNCHANGED <<out_wav, cs, stdout, exit_code, runs_begun, trVars, vcVars, stVars>>

\* process_recording, translation: the engine answers or the stage fails
\* with TranslationFailed.
PR_Translate ==
    /\ run.pc = "pr_translate"
    /\ \/ \E resp \in RunEngineTexts :
            run' = [run EXCEPT
                      !.pc = "pr_voice",
                      !.translation =
                          TranslateResult(run.to_lang, run.from_lang, run.text, resp),
                      !.calls.translate = @ + 1,
                      !.visited = Visit("Translated")]
       \/ run' = [FailEnv EXCEPT !.calls.translate = @ + 1,
                                 !.result = PipelineError("TranslationFailed")]
    /\ UNCHANGED <<out_wav, cs, stdout, exit_code, runs_begun, trVars, vcVars, stVars>>

\* process_recording, voice: the clone is created, or the static default id
\* stands in for it when the creation fails.
PR_Voice ==
    /\ run.pc = "pr_voice"
    /\ \/ /\ minted' = minted + 1
          /\ run' = [run EXCEPT !.pc = "pr_synth",
                                !.voice_id = MintedId(minted),
                                !.calls.clone = @ + 1,
                                !.visited = Visit("VoiceReady")]
       \/ /\ run' = [run EXCEPT !.pc = "pr_synth",
                                !.voice_id = DEFAULT_VOICE_ID,
                                !.calls.clone = @ + 1,
                                !.clone_failed = TRUE,
                                !.visited = Visit("VoiceReady")]
          /\ UNCHANGED minted
    /\ UNCHANGED <<_voice_cache, sha256, vc, create_calls, fallen, calls_begun>>
    /\ UNCHANGED <<out_wav, cs, stdout, exit_code, runs_begun, trVars, stVars>>

\* process_recording, synthesis: the request yields a lazy chunk sequence,
\* or the stage fails with SynthesisFailed; then the result is returned.
PR_Synthesize ==
    /\ run.pc = "pr_synth"
    /\ LET req == [via |-> "synthesize",
                   text |-> run.translation.translated_text,
                   voice_id |-> run.voice_id]
       IN  \/ \E chunks \in ChunkStreams :
                 run' = [run EXCEPT !.pc = "pp_open", !.stream = chunks,
                                    !.chunks = chunks,
                                    !.requests = Append(@, req),
                                    !.calls.synth = @ + 1,
                                    !.visited = Visit("Synthesizing")]
           \/ run' = [FailEnv EXCEPT !.requests = Append(@, req),
                                     !.calls.synth = @ + 1,
                                     !.result = PipelineError("SynthesisFailed")]
    /\ UNCHANGED <<out_wav, cs, stdout, exit_code, runs_begun, trVars, vcVars, stVars>>

\* lines 72-76: the temporary file for the audio is created with
\* delete=False, so closing it leaves it on the disk.
PP_OpenTemp ==
    /\ run.pc = "pp_open"
    /\ run' = [run EXCEPT !.pc = "pp_stream", !.temp_file = <<>>]
    /\ UNCHANGED <<out_wav, cs, stdout, exit_code, runs_begun, trVars, vcVars, stVars>>

\* line 77: for chunk in result.audio_stream -- the next chunk is requested;
\* an exception of the stream reaches the except branch (lines 93-97).
PP_Fetch ==
    /\ run.pc = "pp_stream"
    /\ run.stream # <<>>
    /\ \/ run' = [run EXCEPT !.pc = "pp_write",
                             !.fetched = Append(@, NextChunk(run.stream)),
                             !.stream = RestChunks(@)]
       \/ run' = [FailEnv EXCEPT !.result = PipelineError("SynthesisFailed")]
    /\ UNCHANGED <<out_wav, cs, stdout, exit_code, runs_begun, trVars, vcVars, stVars>>

\* line 78: temp_file.write(chunk)
PP_Write ==
    /\ run.pc = "pp_write"
    /\ run' = [run EXCEPT !.pc = "pp_stream",
                          !.temp_file = Append(@, run.fetched[Len(run.fetched)]),
                          !.yielded = Append(@, run.fetched[Len(run.fetched)])]
    /\ UNCHANGED <<out_wav, cs, stdout, exit_code, runs_begun, trVars, vcVars, stVars>>

\* lines 80-91: the stream is exhausted and the success result is returned.
PP_Return ==
    /\ run.pc = "pp_stream"
    /\ run.stream = <<>>
    /\ run' = [run EXCEPT !.pc = "done", !.visited = Visit("Done"),
                          !.result = PipelineSuccess(run, TempMp3)]
    /\ UNCHANGED <<out_wav, cs, stdout, exit_code, runs_begun, trVars, vcVars, stVars>>

\* Runs of the three entry points (processAudio behind __main__,
\* process_audio, process_audio_pipeline), one after the other.
RunsNext ==
    \/ StartMain
    \/ MainValidate
    \/ ReceiveDecode
    \/ ReceiveTranscribe
    \/ TT_Translate
    \/ TT_Voice
    \/ HashFile(1)
    \/ CheckCache(1)
    \/ CreateVoice(1)
    \/ StoreAndReturn(1)
    \/ TT_VoiceReturn
    \/ TT_Synthesize
    \/ CS_Decode
    \/ StartProcessAudio
    \/ PA_Stage
    \/ PA_StageReturn
    \/ PA_Transcribe
    \/ PA_Translate
    \/ PA_Send
    \/ StCheckDir(1)
    \/ StMakeDirs(1)
    \/ StUuid4(1)
    \/ StWaveOpen(1)
    \/ StWriteFrames(1)
    \/ StartPipeline
    \/ EN_Read
    \/ EN_Write
    \/ PP_Validate
    \/ PR_Stage
    \/ PR_Transcribe
    \/ PR_Translate
    \/ PR_Voice
    \/ PR_Synthesize
    \/ PP_OpenTemp
    \/ PP_Fetch
    \/ PP_Write
    \/ PP_Return

(***************************************************************************)
(* gemini_api/main.py: aaryan_to_simir_stream, and the streaming           *)
(* translation translate_text_stream_ordered, which it returns             *)
(***************************************************************************)
\* The fragment that reports a failure of the engine.
Sentinel == <<"[","e","r","r","o","r","]">>

\* Fragment sequences the translation engine may stream before it ends or
\* fails.
FragmentStreams ==
    { <<>>, << <<"h","o","l","a"," ">> >>,
      << <<"h","o","l","a">>, <<"t","u">> >>,
      << <<"a"," ">>, <<"b">>, <<"c","\n">> >> }

\* A wrapper that holds back the sentinel.
StreamWithoutSentinel(part) == IF part = Sentinel THEN EmptyStr ELSE part

\* gemini_api/main.py lines 19-23: the generator of
\* translate_text_stream_ordered is returned as it is, so every fragment
\* reaches the caller unchanged.
aaryan_to_simir_stream(part) == part

\* The stream holds a sentinel: the translation has failed.
StreamFailed(parts) == \E i \in DOMAIN parts : parts[i] = Sentinel

\* A caller begins a streaming translation of a transcript.
StartTranslateStream ==
    /\ RunOver
    /\ runs_begun < MaxRuns
    /\ runs_begun' = runs_begun + 1
    /\ \E parts \in FragmentStreams, x \in SttTexts :
          run' = [NewRun("stream", "ts_stream") EXCEPT
                    !.from_lang = <<"e","n">>, !.to_lang = <<"e","s">>,
                    !.text = x, !.transcript = x,
                    !.stream = parts, !.chunks = parts,
                    !.calls.translate = 1,
                    !.visited = <<"Staged", "Transcribed">>]
    /\ UNCHANGED <<out_wav, cs, stdout, exit_code, trVars, vcVars, stVars>>

\* The next fragment is requested from the engine, which hands it over or
\* fails.
TS_Fetch ==
    /\ run.pc = "ts_stream"
    /\ run.stream # <<>>
    /\ \/ run' = [run EXCEPT !.pc = "ts_yield",
                             !.fetched = Append(@, Head(run.stream)),
                             !.stream = Tail(@)]
       \/ run' = [run EXCEPT !.pc = "ts_error", !.env_ok = FALSE]
    /\ UNCHANGED <<out_wav, cs, stdout, exit_code, runs_begun, trVars, vcVars, stVars>>

\* The fragment is yielded, with a single space appended when it does not
\* end in whitespace.
TS_Yield ==
    /\ run.pc = "ts_yield"
    /\ LET part == run.fetched[Len(run.fetched)]
           spaced == IF part[Len(part)] \in Whitespace THEN part
                     ELSE Append(part, " ")
       IN  run' = [run EXCEPT !.pc = "ts_stream",
                              !.yielded = Append(@, aaryan_to_simir_stream(spaced))]
    /\ UNCHANGED <<out_wav, cs, stdout, exit_code, runs_begun, trVars, vcVars, stVars>>

\* After a failure of the engine a single sentinel fragment is yielded and
\* the sequence ends.
TS_Sentinel ==
    /\ run.pc = "ts_error"
    /\ run' = [run EXCEPT !.pc = "ts_closed", !.stream = <<>>,
                          !.yielded = Append(@, aaryan_to_simir_stream(Sentinel))]
    /\ UNCHANGED <<out_wav, cs, stdout, exit_code, runs_begun, trVars, vcVars, stVars>>

\* The sequence has ended: the orchestrator takes a stream that holds a
\* sentinel as a failed translation, Failed(stage = Translated), and any
\* other as the translation.
TS_Finish ==
    /\ \/ run.pc = "ts_closed"
       \/ run.pc = "ts_stream" /\ run.stream = <<>>
    /\ IF StreamFailed(run.yielded)
       THEN run' = [Fail EXCEPT
                      !.result = [success |-> FALSE, stage |-> "Translated",
                                  error |-> Sentinel]]
       ELSE run' = [run EXCEPT !.pc = "returned",
                               !.visited = Visit("Translated")]
    /\ UNCHANGED <<out_wav, cs, stdout, exit_code, runs_begun, trVars, vcVars, stVars>>

StreamNext ==
    \/ StartTranslateStream
    \/ TS_Fetch
    \/ TS_Yield
    \/ TS_Sentinel
    \/ TS_Finish

(***************************************************************************)
(* Properties of the voice cache                                           *)
(***************************************************************************)
VoiceNameArgs == {DEFAULT_VOICE_NAME, <<"A","l","i">>}

RECURSIVE SumCreates(_, _)
SumCreates(voice_name, paths) ==
    IF paths = {} THEN 0
    ELSE LET p == CHOOSE q \in paths : TRUE IN
         create_calls[<<voice_name, p>>] + SumCreates(voice_name, paths \ {p})

\* Clone-creation calls issued for the pair (voice_name, fingerprint).
CreateCount(voice_name, fp) ==
    SumCreates(voice_name,
               {p \in AllPaths : FileBytes(p) # NoFile /\ _hash_file(p) = fp})

Returned(c) == vc[c].pc = "done"

\* C2: cache correctness under concurrency. For every pair (voice name,
\* fingerprint) at most one clone-creation call is issued, and all callers
\* that have returned for that pair hold the same voice id.
C2_AtMostOneClone ==
    /\ \A n \in VoiceNameArgs, fp \in Fingerprints : CreateCount(n, fp) <= 1
    /\ \A c, d \in Callers :
          (Returned(c) /\ Returned(d) /\ KeyOf(c) = KeyOf(d))
              => vc[c].voice_id = vc[d].voice_id

\* C3: fallback on failure. A call whose clone-creation call raised does not
\* raise itself and carries, and returns, the non-empty static default id.
C3_FallbackOnFailure ==
    \A c \in Callers :
        vc[c].how = "failed" =>
            /\ vc[c].pc \in {"store", "done"}
            /\ vc[c].voice_id = DEFAULT_VOICE_ID
            /\ Truthy(vc[c].voice_id)

C3_Witness ==
    \E c \in Callers :
        Returned(c) /\ vc[c].how = "failed" /\ vc[c].voice_id = DEFAULT_VOICE_ID

FallenKept ==
    \A k \in fallen : k \in DOMAIN _voice_cache /\ _voice_cache[k] = DEFAULT_VOICE_ID

FallenReturned ==
    \A c \in Callers :
        (Returned(c) /\ KeyOf(c) \in fallen) => vc[c].voice_id = DEFAULT_VOICE_ID

NoCreateForFallen ==
    \A n \in VoiceNameArgs, p \in AllPaths :
        create_calls'[<<n, p>>] # create_calls[<<n, p>>]
            => CacheKey(n, _hash_file(p), p) \notin fallen

\* C4: the fallback is cached. Calls running one after the other: once a
\* clone-creation failure has stored the default id under a key, the key
\* keeps the default id, every call that returns for that key returns the
\* default id, and no further clone-creation call is issued for that key,
\* whatever the collaborator would answer.
C4_FallbackCached ==
    /\ [](FallenKept /\ FallenReturned)
    /\ [][NoCreateForFallen]_vars

C4_Witness ==
    \E c \in Callers :
        /\ Returned(c)
        /\ vc[c].how = "hit"
        /\ KeyOf(c) \in fallen
        /\ vc[c].voice_id = DEFAULT_VOICE_ID

\* Two returned calls with the same voice name on two paths holding the same
\* bytes.
SameBytesOtherPath(c, d) ==
    /\ c # d
    /\ Returned(c)
    /\ Returned(d)
    /\ vc[c].voice_name = vc[d].voice_name
    /\ vc[c].path # vc[d].path
    /\ FileBytes(vc[c].path) = FileBytes(vc[d].path)

\* C5: the cache key is (voice name or the default name, fingerprint), not
\* the path. Two calls, one after the other, with the same voice name on
\* files of identical bytes under different paths return the same voice id,
\* and exactly one clone-creation call has been issued for them.
C5_KeyIsFingerprint ==
    \A c, d \in Callers :
        SameBytesOtherPath(c, d) =>
            /\ vc[c].voice_id = vc[d].voice_id
            /\ CreateCount(vc[c].voice_name, _hash_file(vc[c].path)) = 1

C5_Witness ==
    \E c, d \in Callers :
        /\ SameBytesOtherPath(c, d)
        /\ vc[c].how = "created"
        /\ vc[d].how = "hit"
        /\ vc[c].voice_name = DEFAULT_VOICE_NAME
        /\ vc[c].voice_id = vc[d].voice_id

\* C6: cache entries are immutable and never evicted. In every step, under
\* any interleaving of calls, each key present in the cache stays present
\* with the same voice id.
C6_EntriesImmutable ==
    [][\A k \in DOMAIN _voice_cache :
          k \in DOMAIN _voice_cache' /\ _voice_cache'[k] = _voice_cache[k]]_vars

(***************************************************************************)
(* Properties of the pipeline                                              *)
(***************************************************************************)
\* A voice id the clone-creation collaborator has minted.
IsMinted(id) == \E n \in 0 .. (minted - 1) : id = MintedId(n)

\* C7: the voice id is always populated. Every synthesis request of the run
\* carries a voice id that is neither None nor empty and is an id the clone
\* collaborator minted or the static default.
C7_VoiceIdPopulated ==
    \A i \in DOMAIN run.requests :
        /\ Truthy(run.requests[i].voice_id)
        /\ \/ run.requests[i].voice_id = DEFAULT_VOICE_ID
           \/ IsMinted(run.requests[i].voice_id)

Visited(state) == \E i \in DOMAIN run.visited : run.visited[i] = state

\* C8: cloning completes before synthesis. Whenever the run has issued a
\* synthesis request, the voice step has returned (no call of the voice
\* cache is in progress), the request carries the voice id that step
\* produced, and in translate_text the translated text was available and is
\* the text of the request.
C8_CloneBeforeSynthesis ==
    run.requests # <<>> =>
        /\ Visited("VoiceReady")
        /\ Finished(1)
        /\ \A i \in DOMAIN run.requests :
              run.requests[i].voice_id = run.voice_id
        /\ run.kind # "clone_and_speak" =>
              /\ Visited("Translated")
              /\ run.requests[1].text = run.translation.translated_text

C8_Witness ==
    /\ run.kind = "translate_text"
    /\ run.pc = "returned"
    /\ run.visited = <<"Translated", "VoiceReady", "Synthesizing">>
    /\ run.requests # <<>>
    /\ run.requests[1].voice_id = MintedId(0)

OneShotStates ==
    <<"Staged", "Transcribed", "Translated", "VoiceReady", "Synthesizing", "Done">>

\* C9: one-shot order. A run of the entry point on a valid request, in which
\* no collaborator fails, ends having visited Staged, Transcribed,
\* Translated, VoiceReady, Synthesizing, Done, each once and in this order;
\* and the transcript is there before translation begins.
C9_OneShotOrder ==
    /\ (run.kind = "main" /\ run.pc \in {"done", "failed"} /\ run.env_ok)
          => run.visited = OneShotStates
    /\ (run.kind = "main" /\ Visited("Translated"))
          => /\ run.visited[2] = "Transcribed"
             /\ run.calls.stt = 1

\* Clone-creation calls of the current run: those of clone_and_speak and
\* those of _create_or_get_voice since the run began.
RunClones == run.calls.clone + (TotalCreates - run.creates0)

\* C10: one clone per run. Within one run the clone-creation collaborator is
\* called at most once, and the transcription, the translation and the
\* synthesis collaborator are each called at most once.
C10_OneClonePerRun ==
    /\ RunClones <= 1
    /\ run.calls.stt <= 1
    /\ run.calls.translate <= 1
    /\ run.calls.synth <= 1

C10_Witness ==
    /\ run.kind = "main"
    /\ run.pc = "failed"
    /\ RunClones = 1
    /\ run.calls.stt = 1
    /\ run.calls.translate = 1
    /\ run.calls.synth = 1

(***************************************************************************)
(* Further properties of the pipeline, the translator and the cache        *)
(***************************************************************************)
\* C14: a clone-creation error is never surfaced as a pipeline failure. In
\* every run in which the clone-creation collaborator failed, the run holds
\* the static fallback voice id and, once it is over, it has issued a
\* synthesis request carrying that id.
C14_CloneErrorMasked ==
    run.clone_failed =>
        /\ run.voice_id = DEFAULT_VOICE_ID
        /\ RunOver =>
              \E i \in DOMAIN run.requests :
                  run.requests[i].voice_id = DEFAULT_VOICE_ID

IsPrefix(s, t) == Len(s) <= Len(t) /\ s = SubSeq(t, 1, Len(s))

\* C15: chunks reach the caller in the order of the synthesis engine. At
\* every point the chunks yielded, and those written to stdout, are a prefix
\* of the engine's chunk sequence, and at most one chunk requested from the
\* engine has not been delivered yet (chunk k is delivered before chunk k+1
\* is requested).
C15_ChunksInOrder ==
    /\ IsPrefix(run.yielded, run.chunks)
    /\ IsPrefix(run.fetched, run.chunks)
    /\ Len(run.fetched) <= Len(run.yielded) + 1
    /\ run.pc = "cs_stream" => run.fetched = run.yielded
    /\ run.kind = "main" => IsPrefix(stdout, run.yielded)

C15_Witness ==
    /\ run.kind = "clone_and_speak"
    /\ run.pc = "done"
    /\ run.chunks = <<"c1", "c2">>
    /\ run.yielded = <<"c1", "c2">>
    /\ out_wav = <<"c1", "c2">>

\* The rows of the canonical table.
Canonical == {<<LANG_CODES[i], LANG_NAMES[i]>> : i \in DOMAIN LANG_CODES}

\* The pair (code, disp) is what the token resolves to.
Resolves(tok, code, disp) ==
    LET l == Lower(Strip(tok)) IN
    IF \E e \in Canonical : e[1] = l
    THEN \E e \in Canonical : e[1] = l /\ code = e[1] /\ disp = e[2]
    ELSE IF \E e \in Canonical : Lower(e[2]) = l
         THEN \E e \in Canonical :
                  Lower(e[2]) = l /\ code = e[1] /\ disp = e[2]
         ELSE code = l /\ disp = Strip(tok)

\* C16: language normalisation. For every language token (a non-empty
\* string), with l the lower-cased trimmed token: a token whose l is a code
\* of the canonical table resolves to that row; otherwise a token whose l is
\* the lower-cased display name of a row resolves to that row; otherwise the
\* code is l and the display name is the trimmed token in its original
\* casing. Every token resolves (normalisation does not fail).
C16_LanguageNormalization ==
    tr_pc # "start" =>
        /\ Truthy(tr_in.to_lang) =>
              Resolves(tr_in.to_lang, tr_norm.to[1], tr_norm.to[2])
        /\ Truthy(tr_in.from_lang) =>
              Resolves(tr_in.from_lang, tr_norm.from[1], tr_norm.from[2])

C16_Witness ==
    /\ tr_pc = "returned"
    /\ tr_in.to_lang = <<" ","e","n"," ">>
    /\ tr_norm.to = << <<"e","n">>, <<"E","n","g","l","i","s","h">> >>
    /\ tr_in.from_lang = <<"X","x"," ">>
    /\ tr_norm.from = << <<"x","x">>, <<"X","x">> >>

\* A call that has computed its fingerprint.
Hashed(c) == vc[c].pc \in {"check", "create", "store", "done"}

\* C17 as stated: fingerprint stability. Two fingerprinted files have the
\* same fingerprint exactly when they hold the same bytes: the same bytes
\* under different names give identical fingerprints and different contents
\* give different fingerprints.
C17_FingerprintStability ==
    \A c, d \in Callers :
        (Hashed(c) /\ Hashed(d)) =>
            (vc[c].file_hash = vc[d].file_hash
                <=> FileBytes(vc[c].path) = FileBytes(vc[d].path))

\* C17 as amended: the fingerprint depends only on the byte content. The
\* same bytes under different names give identical fingerprints, and
\* different contents give different fingerprints whenever the 16 digit
\* prefixes of their digests differ.
C17_FingerprintOfContent ==
    \A c, d \in Callers :
        (Hashed(c) /\ Hashed(d)) =>
            /\ FileBytes(vc[c].path) = FileBytes(vc[d].path)
                  => vc[c].file_hash = vc[d].file_hash
            /\ sha256[FileBytes(vc[c].path)] # sha256[FileBytes(vc[d].path)]
                  => vc[c].file_hash # vc[d].file_hash

C17_Witness ==
    \E c, d \in Callers :
        /\ Hashed(c)
        /\ Hashed(d)
        /\ vc[c].path = "a.wav"
        /\ vc[d].path = "b.wav"
        /\ vc[c].file_hash = vc[d].file_hash
        /\ sha256[BytesX] # sha256[BytesY]

\* C20: in every successful result the translated text is non-empty unless
\* the transcript was empty, whatever the translation engine answers.
C20_TranslatedNonEmpty ==
    (run.kind \in {"main", "translate_text"} /\ run.pc \in {"returned", "done"}
        /\ Truthy(run.transcript))
        => Truthy(run.translation.translated_text)

(***************************************************************************)
(* Properties of failed runs                                               *)
(***************************************************************************)
\* Kinds of run that begin with a staging stage.
StagingKinds == {"main", "process_audio", "pipeline"}

\* What the histories of a run show after a stage failure: the run is in
\* Failed, which is the last state it visited, it has not visited Done, and
\* no collaborator of a stage after the failing one has been called.
FailureAborts ==
    /\ Visited("Failed") =>
          /\ run.pc = "failed"
          /\ run.visited[Len(run.visited)] = "Failed"
          /\ ~Visited("Done")
    /\ (run.kind \in StagingKinds /\ run.pc = "failed" /\ ~Visited("Staged")) =>
          /\ run.calls = NoCalls
          /\ RunClones = 0
    /\ (run.calls.stt > 0 /\ ~Visited("Transcribed")) =>
          /\ run.pc = "failed"
          /\ run.calls.translate = 0
          /\ RunClones = 0
          /\ run.calls.synth = 0
    /\ (run.calls.translate > 0 /\ ~Visited("Translated")) =>
          /\ run.pc = "failed"
          /\ RunClones = 0
          /\ run.calls.synth = 0
    /\ (run.calls.synth > 0 /\ ~Visited("Synthesizing")) =>
          run.pc = "failed"

\* A step taken from Failed changes nothing of the run and calls no
\* collaborator, unless it begins the next run.
NothingAfterFailed ==
    run.pc = "failed" =>
        /\ create_calls' = create_calls
        /\ minted' = minted
        /\ \/ run' = run
           \/ /\ run'.visited = <<>>
              /\ run'.calls = NoCalls
              /\ run'.creates0 = TotalCreates

\* C11: any stage failure moves the run to the terminal Failed state and
\* aborts the downstream stages. After a staging, transcription,
\* translation or synthesis failure no later stage's collaborator is called
\* in that run and the run never reaches Done.
C11_FailureAborts ==
    /\ []FailureAborts
    /\ [][NothingAfterFailed]_vars

C11_Witness ==
    /\ run.kind = "process_audio"
    /\ run.pc = "failed"
    /\ run.visited = <<"Staged", "Failed">>
    /\ run.calls = [stt |-> 1, translate |-> 0, clone |-> 0, synth |-> 0]
    /\ runs_begun = 2

\* C12: partial results are kept in the failure payload. When a run fails
\* at translation or synthesis after the transcription succeeded, the
\* failure result returned to the caller contains the transcript.
C12_PartialResultsKept ==
    (run.kind \in {"process_audio", "pipeline"} /\ run.pc = "failed"
        /\ Visited("Transcribed")) =>
        \/ /\ "original_text" \in DOMAIN run.result
           /\ run.result.original_text = run.transcript
        \/ /\ "text" \in DOMAIN run.result
           /\ run.result.text = run.transcript

\* C13: a failed run returns a structured failure object that identifies
\* the failing stage and gives a cause, and a result marked successful
\* lacks none of transcript, translated text, voice id and audio output.
C13_StructuredFailure ==
    /\ (run.kind \in {"process_audio", "pipeline"} /\ run.pc = "failed") =>
          /\ "stage" \in DOMAIN run.result
          /\ "error" \in DOMAIN run.result
    /\ (run.kind = "pipeline" /\ run.pc = "done") =>
          /\ run.result.success
          /\ run.result.original_text # None
          /\ run.result.translated_text # None
          /\ Truthy(run.result.voice_id)
          /\ run.result.audio_file_path # NoOutput

\* A request of process_audio_pipeline that names an existing file which is
\* not an audio container, once staging has been attempted.
UnsupportedInput ==
    /\ run.kind = "pipeline"
    /\ Truthy(run.from_lang)
    /\ Truthy(run.to_lang)
    /\ PathExists(run.path)
    /\ ~IsAudioContainer(run.path)
    /\ run.pc \notin {"pp_validate", "pr_stage"}

Extractable(result) ==
    \/ result.shape = "string"
    \/ result.shape \in {"object", "dict"} /\ result.value \notin {Absent, None}

\* The text carried by an answer from which one can be extracted.
Extracted(result) == result.value

\* C21: transcription response normalisation. For each shape of the engine's
\* answer the transcript is the extracted text trimmed of surrounding
\* whitespace; for an answer from which no text can be extracted the
\* transcription fails and never returns the stringified answer as the
\* transcript.
C21_ResponseNormalization ==
    (run.kind = "process_audio" /\ run.response # NoResponse) =>
        IF Extractable(run.response)
        THEN /\ Visited("Transcribed")
             /\ run.transcript = Strip(Extracted(run.response))
        ELSE /\ run.pc = "failed"
             /\ ~Visited("Transcribed")
             /\ run.transcript # Str(run.response)

\* The fragments with a space appended to those that end in none.
Spaced(parts) ==
    [i \in DOMAIN parts |->
        IF parts[i][Len(parts[i])] \in Whitespace THEN parts[i]
        ELSE Append(parts[i], " ")]

C23_CancellationCleanup ==
    /\ (run.kind = "pipeline" /\ run.pc = "failed" /\ Visited("Synthesizing"))
          => run.temp_file = NoFile
    /\ (run.kind = "clone_and_speak" /\ run.pc = "failed" /\ run.fetched # <<>>)
          => out_wav = NoFile

\* C24: the staging directory is created idempotently. For any number of
\* staging calls, one after the other or concurrent, starting with the
\* directory missing or present, every call that has passed the creation
\* finds the directory present, and no call fails in the creation because
\* the directory already exists (a call that raised did so when opening its
\* file, after its identifier was drawn).
C24_IdempotentDirectory ==
    \A c \in Stagers :
        /\ st[c].pc \in {"uuid", "open", "write", "done"} => recordings_dir
        /\ st[c].pc = "raised" => st[c].unique_id # 0

\* C25: the side calls never fail the main result. In process_audio,
\* whatever the outcome of the translator placeholder and of the audio-file
\* side call (file missing, processing functions unavailable, clone creation
\* raising, voice-info file not written), the run returns the result with the
\* transcript and the detected language it would return when the side calls
\* succeed, without an error field.
C25_SideCallsNeverFail ==
    (run.kind = "process_audio" /\ run.side # "none") =>
        /\ run.pc = "returned"
        /\ ~Visited("Failed")
        /\ run.result =
              ResultJson(run.from_lang, run.to_lang, run.transcript, run.from_lang)
        /\ "error" \notin DOMAIN run.result

C25_Witness ==
    /\ run.kind = "process_audio"
    /\ run.side = "create_voice raised"
    /\ run.clone_failed
    /\ run.pc = "returned"
    /\ run.result.text = <<" ","h","i","\n">>

\* The JSON objects the process has written to stdout.
JsonWritten == SelectSeq(stdout, LAMBDA item : item.kind = "json")

InvalidRequest ==
    /\ run.kind = "pipeline"
    /\ run.input.json = "object"
    /\ \/ run.input.wav_path = ""
       \/ ~Truthy(run.input.from_lang)
       \/ ~Truthy(run.input.to_lang)
       \/ run.input.wav_path \in {"gone.wav"}
    /\ run.pc \notin {"en_read", "pp_validate"}

\* C27: request validation precedes every stage. If wav_path, from_lang or
\* to_lang is missing or empty, or the file at wav_path does not exist,
\* process_audio_pipeline returns success = false with an error message and
\* invokes no stage: no transcription, translation, clone-creation or
\* synthesis call is made and no output file is created.
C27_ValidationFirst ==
    InvalidRequest =>
        /\ run.pc = "failed"
        /\ run.result.success = FALSE
        /\ "error" \in DOMAIN run.result
        /\ run.result.error[1] \in {"Missing required parameters",
                                    "Audio file not found"}
        /\ run.visited = <<"Failed">>
        /\ run.calls = NoCalls
        /\ RunClones = 0
        /\ run.requests = <<>>
        /\ run.temp_file = NoFile

C27_Witness ==
    /\ InvalidRequest
    /\ run.input.wav_path = "gone.wav"
    /\ Truthy(run.input.from_lang)
    /\ Truthy(run.input.to_lang)
    /\ run.result = FileNotFound("gone.wav")
    /\ exit_code = 0

\* C28: when a run of clone_and_speak has been fully consumed, out.wav
\* holds exactly the chunks that run yielded, in order, for every run, also
\* when several runs execute at once in the same working directory: in
\* every step in which a run ends, the file is what that run yielded.
C28_OutputFileOfRun ==
    [][\A c \in 1 .. NSpeakers :
          (cs[c].pc = "stream" /\ cs'[c].pc = "done")
              => out_wav' = cs'[c].yielded]_vars

\* The step is the store of call c after a miss: the cache gains the entry
\* for the key of c, which it did not hold, and keeps every other entry.
AddsOwnKey(c) ==
    /\ vc[c].pc = "store"
    /\ vc[c].how \in {"created", "failed"}
    /\ KeyOf(c) \notin DOMAIN _voice_cache
    /\ DOMAIN _voice_cache' = DOMAIN _voice_cache \cup {KeyOf(c)}
    /\ _voice_cache'[KeyOf(c)] = vc[c].voice_id
    /\ \A k \in DOMAIN _voice_cache : _voice_cache'[k] = _voice_cache[k]

\* What one step of a call of _create_or_get_voice may change.
FrameOfStep ==
    /\ _voice_cache' # _voice_cache => \E c \in Callers : AddsOwnKey(c)
    /\ create_calls' # create_calls =>
          \E c \in Callers :
              /\ vc[c].pc = "create"
              /\ KeyOf(c) \notin DOMAIN _voice_cache
    /\ \A c \in Callers :
          /\ (vc[c].pc # "done" /\ vc'[c].pc = "done" /\ vc'[c].how = "hit") =>
                /\ vc[c].pc = "check"
                /\ KeyOf(c) \in DOMAIN _voice_cache
                /\ vc'[c].voice_id = _voice_cache[KeyOf(c)]
                /\ _voice_cache' = _voice_cache
                /\ create_calls' = create_calls
          /\ (vc[c].pc # "raised" /\ vc'[c].pc = "raised") =>
                /\ vc[c].pc = "hash"
                /\ FileBytes(vc[c].path) = NoFile
                /\ _voice_cache' = _voice_cache
                /\ create_calls' = create_calls

TrQuiet ==
    /\ tr_pc = "start"
    /\ tr_in = [to_lang |-> <<"e","s">>, from_lang |-> <<"e","n">>,
                text |-> <<"h","i">>]
    /\ tr_calls = <<>>
    /\ tr_out = None
    /\ tr_norm = NotNormalized

\* The voice cache before any call, for the specifications that do not use it.
VcQuiet ==
    /\ VcInit
    /\ sha256 = [b \in Contents |-> "3f2a9c0d11e4b7a6"]

\* The staging directory before any call, for the specifications that do not
\* use it.
StQuiet ==
    /\ StInit
    /\ recordings_dir = FALSE

InitTranslate == TrInit /\ VcQuiet /\ PlInit /\ StQuiet

\* Translator.translate on every input.
SpecTranslate == InitTranslate /\ [][TrNext]_vars

InitVoice == VcInit /\ TrQuiet /\ PlInit /\ StQuiet

\* Threads calling _create_or_get_voice concurrently.
SpecVoice == InitVoice /\ [][VcNext]_vars

\* Calls of _create_or_get_voice one after the other.
SpecVoiceSeq == InitVoice /\ [][VcNextSeq]_vars

InitStaging == StInit /\ TrQuiet /\ VcQuiet /\ PlInit

\* Threads calling _convert_pcm_to_wav concurrently.
SpecStaging == InitStaging /\ [][StNext]_vars

\* Pipeline runs, one after the other, sharing the voice cache.
SpecPipeline == InitVoice /\ [][PlNext]_vars

\* The state before any run: an empty cache and a digest that tells the two
\* contents apart.
InitRuns ==
    /\ VcInit
    /\ sha256 = [b \in Contents |->
                   IF b = BytesX THEN "3f2a9c0d11e4b7a6" ELSE "c01dbeef5ca1ab1e"]
    /\ TrQuiet
    /\ PlInit
    /\ StQuiet

\* Runs of the three entry points, one after the other.
SpecRuns == InitRuns /\ [][RunsNext]_vars

\* Threads iterating clone_and_speak concurrently.
SpecSpeak == InitVoice /\ [][SpNext]_vars

\* Streaming translations, one after the other.
SpecStream == InitRuns /\ [][StreamNext]_vars
=============================================================================
